---- MODULE Spec2Model ----
(***************************************************************************)
(* Model of the Modbus TCP server application (src-tauri/src/lib.rs and    *)
(* src-tauri/src/modbus.rs): the server runtime controller (server_start,  *)
(* server_stop, server_status, the spawned accept task and its connection  *)
(* wrappers), the register store behind its read/write lock, and the       *)
(* request handler.                                                        *)
(*                                                                         *)
(* Option<T> values are sequences of length at most one: None is <<>> and  *)
(* Some(x) is <<x>>.                                                       *)
(***************************************************************************)
EXTENDS Integers, Sequences, FiniteSets, TLC

(***************************************************************************)
(* Bounds of the model.                                                    *)
(***************************************************************************)
\* number of accept tasks that may be spawned in one behaviour
MaxStarts == 2
\* number of connections that may be live at the same time
MaxConns == 2

\* management-API callers that may have a command in flight at the same time
Callers == {"ui1", "ui2"}
\* "localhost" is not an IP literal: SocketAddr parsing of "localhost:port" fails
Hosts == {"127.0.0.1", "localhost"}
\* the configured port: 0 asks the OS for a free port, so the binds of two starts
\* never conflict; a bind may still fail for any other reason
Ports == {0}
\* the port the OS assigns to the g-th listener bound to port 0
assigned_port(g) == 49152 + g
Gens == 1..MaxStarts

None == <<>>
Some(x) == <<x>>
\* String::new()
EmptyString == <<>>

VARIABLES
    \* ---- ServerRuntimeState, behind AppState.server (a Mutex) ----
    runtime,        \* Option<RuntimeState>: [gen, bind]; gen names cancel/handle/connections
    last_error,     \* Option<String>
    \* ---- management commands in flight ----
    pc,             \* caller -> position inside server_start / server_stop
    local,          \* caller -> locals of the command in flight
    ret,            \* what the command completed by the last step returned, NoRet if none did
    \* ---- accept tasks (one per tauri::async_runtime::spawn) ----
    task,           \* gen -> position of the accept task, see TaskStates
    connections,    \* gen -> the Arc<AtomicUsize> created by that start
    services,       \* gen -> number of live ConnectionService values
    spawned,        \* number of accept tasks spawned so far
    status_event    \* Option<ServerStatus>: payload the last step emitted on "modbus://status"

VARIABLES
    \* ---- AppState.store (behind an RwLock) and the last store operation ----
    store,          \* ModbusStore
    call,           \* the request or command just handled, NoCall once delivered
    result,         \* what it returned
    updates,        \* the payloads it emitted on "modbus://updated", in order
    pre,            \* the store as it was before it ran
    last_write,     \* Option: the last successful range write, if no write followed it
    ops             \* number of requests and commands handled so far

VARIABLES
    \* ---- the threads that use the store's RwLock, cell by cell ----
    th,             \* thread -> Idle, or the lock it holds and how far its handler is
    done            \* the call the last step completed, NoDone if it completed none

storeVars == <<store, call, result, updates, pre, last_write, ops>>

lockVars == <<th, done>>

serverVars == <<runtime, last_error, pc, local, ret, task,
                connections, services, spawned, status_event>>

vars == <<serverVars, storeVars, lockVars>>

(***************************************************************************)
(* lib.rs: build_status                                                    *)
(***************************************************************************)
\* mutant: the count of the first runtime is reported when no runtime exists
build_status_stale_count(rt, err, conns) ==
    IF rt # None
    THEN [running |-> TRUE, bind |-> rt[1].bind,
          connections |-> conns[rt[1].gen], last_error |-> err]
    ELSE [running |-> FALSE, bind |-> EmptyString, connections |-> conns[1],
          last_error |-> err]

build_status(rt, err, conns) ==
    IF rt # None
    THEN [running |-> TRUE, bind |-> rt[1].bind,
          connections |-> conns[rt[1].gen], last_error |-> err]
    ELSE [running |-> FALSE, bind |-> EmptyString, connections |-> 0, last_error |-> err]

\* Positions of an accept task: not spawned; awaiting serve_until; the same after
\* server_stop called cancel.cancel() and handle.abort(); serve_until returned
\* Ok / Err and the task is about to run lines 135-141; finished; dropped by abort.
TaskStates == {"none", "serving", "signalled", "returned_ok", "returned_err", "done",
               "aborted"}
\* the accept loop is live: the task owns the listener and may accept
Serving == {"serving", "signalled"}
\* cancel.cancel(); handle.abort() (lines 171-172) reach a task only inside serve_until
signal(t) == IF t = "serving" THEN "signalled" ELSE t

\* listener.local_addr().to_string(): "host:port", kept as the pair of its parts
local_addr(host, p) == <<host, p>>

NoLocal == [op |-> "none"]
NoRet == [op |-> "none"]

ServerInit ==
    /\ runtime = None
    /\ last_error = None
    /\ pc = [c \in Callers |-> "idle"]
    /\ local = [c \in Callers |-> NoLocal]
    /\ ret = NoRet
    /\ task = [g \in Gens |-> "none"]
    /\ connections = [g \in Gens |-> 0]
    /\ services = [g \in Gens |-> 0]
    /\ spawned = 0
    /\ status_event = None


(***************************************************************************)
(* lib.rs: server_start.  The command is async: the mutex is released      *)
(* after the first block (66-73), across TcpListener::bind(..).await, and  *)
(* taken again at 144, so the three parts are separate steps.              *)
(***************************************************************************)
\* starts that passed the entry check and have not bound yet
Binding == {c \in Callers : pc[c] = "start_bind"}

\* mutant: last_error is reset before the running check instead of after it
ServerStartEntry_ResetFirst(c, host, p) ==
    /\ UNCHANGED <<storeVars, lockVars>>
    /\ pc[c] = "idle"
    /\ last_error' = None
    /\ IF runtime # None
       THEN /\ ret' = [caller |-> c, op |-> "server_start", at |-> "already_running",
                       ok |-> TRUE,
                       status |-> build_status(runtime, None, connections)]
            /\ UNCHANGED <<pc, local>>
       ELSE /\ host # "localhost"
            /\ spawned + Cardinality(Binding) < MaxStarts
            /\ pc' = [pc EXCEPT ![c] = "start_bind"]
            /\ local' = [local EXCEPT ![c] =
                          [op |-> "server_start", host |-> host, port |-> p]]
            /\ ret' = NoRet
    /\ UNCHANGED <<runtime, task, connections, services, spawned>>
    /\ status_event' = None

\* lines 66-77: the running check, the reset of last_error, the address parse
ServerStartEntry(c, host, p) ==
    /\ UNCHANGED <<storeVars, lockVars>>
    /\ pc[c] = "idle"
    /\ IF runtime # None
       THEN /\ ret' =
                        [caller |-> c, op |-> "server_start", at |-> "already_running", ok |-> TRUE,
                         status |-> build_status(runtime, last_error, connections)]
            /\ UNCHANGED <<last_error, pc, local>>
       ELSE /\ last_error' = None
            /\ IF host = "localhost"
               THEN /\ ret' =
                                [caller |-> c, op |-> "server_start", at |-> "parse", ok |-> FALSE,
                                 err |-> "invalid socket address syntax"]
                    /\ UNCHANGED <<pc, local>>
               ELSE /\ spawned + Cardinality(Binding) < MaxStarts
                    /\ pc' = [pc EXCEPT ![c] = "start_bind"]
                    /\ local' = [local EXCEPT ![c] =
                                  [op |-> "server_start", host |-> host, port |-> p]]
                    /\ ret' = NoRet
    /\ UNCHANGED <<runtime, task, connections, services, spawned>>
    /\ status_event' = None

\* lines 79-91, bind fails: record the error, emit the status, return the error
StartBindFails(c) ==
    /\ UNCHANGED <<storeVars, lockVars>>
    /\ pc[c] = "start_bind"
    /\ LET err == "bind failed"
       IN /\ last_error' = Some(err)
          /\ status_event' = Some(build_status(runtime, Some(err), connections))
          /\ ret' =
                      [caller |-> c, op |-> "server_start", at |-> "bind", ok |-> FALSE, err |-> err]
    /\ pc' = [pc EXCEPT ![c] = "idle"]
    /\ local' = [local EXCEPT ![c] = NoLocal]
    /\ UNCHANGED <<runtime, task, connections, services, spawned>>

\* lines 93-96, local_addr fails: the listener is dropped, the error returned
StartLocalAddrFails(c) ==
    /\ UNCHANGED <<storeVars, lockVars>>
    /\ pc[c] = "start_bind"
    /\ ret' =
                [caller |-> c, op |-> "server_start", at |-> "local_addr", ok |-> FALSE,
                 err |-> "local_addr failed"]
    /\ pc' = [pc EXCEPT ![c] = "idle"]
    /\ local' = [local EXCEPT ![c] = NoLocal]
    /\ UNCHANGED <<runtime, last_error, task,
                   connections, services, spawned>>
    /\ status_event' = None

\* lines 79-142, bind succeeds: fresh token and counter, the accept task is spawned
StartSpawn(c) ==
    /\ UNCHANGED <<storeVars, lockVars>>
    /\ pc[c] = "start_bind"
    /\ LET g == spawned + 1
           p == IF local[c].port = 0 THEN assigned_port(g) ELSE local[c].port
       IN /\ spawned' = g
          /\ task' = [task EXCEPT ![g] = "serving"]
          /\ connections' = [connections EXCEPT ![g] = 0]
          /\ local' = [local EXCEPT ![c] =
                        [op |-> "server_start", gen |-> g,
                         bind |-> local_addr(local[c].host, p)]]
    /\ pc' = [pc EXCEPT ![c] = "start_store"]
    /\ UNCHANGED <<runtime, last_error, services>>
    /\ ret' = NoRet
    /\ status_event' = None

\* lines 144-157: store the runtime record, emit and return the status
StartStore(c) ==
    /\ UNCHANGED <<storeVars, lockVars>>
    /\ pc[c] = "start_store"
    /\ runtime' = Some([gen |-> local[c].gen, bind |-> local[c].bind])
    /\ LET status == build_status(runtime', last_error, connections)
       IN /\ status_event' = Some(status)
          /\ ret' =
                      [caller |-> c, op |-> "server_start", at |-> "started", ok |-> TRUE,
                       status |-> status]
    /\ pc' = [pc EXCEPT ![c] = "idle"]
    /\ local' = [local EXCEPT ![c] = NoLocal]
    /\ UNCHANGED <<last_error, task, connections, services, spawned>>

(***************************************************************************)
(* lib.rs: server_stop.  Three parts: take the record under the mutex      *)
(* (162-168), signal the task without the mutex (170-173), read the status *)
(* under the mutex (175-181).                                              *)
(***************************************************************************)
StopTake(c) ==
    /\ UNCHANGED <<storeVars, lockVars>>
    /\ pc[c] = "idle"
    /\ local' = [local EXCEPT ![c] = [op |-> "server_stop", taken |-> runtime]]
    /\ runtime' = None
    /\ pc' = [pc EXCEPT ![c] = "stop_signal"]
    /\ UNCHANGED <<last_error, task, connections, services, spawned>>
    /\ ret' = NoRet
    /\ status_event' = None

StopSignal(c) ==
    /\ UNCHANGED <<storeVars, lockVars>>
    /\ pc[c] = "stop_signal"
    /\ task' = IF local[c].taken # None
               THEN [task EXCEPT ![local[c].taken[1].gen] = signal(@)]
               ELSE task
    /\ pc' = [pc EXCEPT ![c] = "stop_status"]
    /\ UNCHANGED <<runtime, last_error, local,
                   connections, services, spawned>>
    /\ ret' = NoRet
    /\ status_event' = None

StopStatus(c) ==
    /\ UNCHANGED <<storeVars, lockVars>>
    /\ pc[c] = "stop_status"
    /\ LET status == build_status(runtime, last_error, connections)
       IN /\ status_event' = Some(status)
          /\ ret' =
                      [caller |-> c, op |-> "server_stop", at |-> "stopped", ok |-> TRUE,
                       status |-> status]
    /\ pc' = [pc EXCEPT ![c] = "idle"]
    /\ local' = [local EXCEPT ![c] = NoLocal]
    /\ UNCHANGED <<runtime, last_error, task,
                   connections, services, spawned>>

\* lib.rs: server_status
ServerStatus(c) ==
    /\ UNCHANGED <<storeVars, lockVars>>
    /\ pc[c] = "idle"
    /\ ret' =
                [caller |-> c, op |-> "server_status", at |-> "status", ok |-> TRUE,
                 status |-> build_status(runtime, last_error, connections)]
    /\ UNCHANGED <<runtime, last_error, pc, local,
                   task, connections, services, spawned>>
    /\ status_event' = None

(***************************************************************************)
(* The accept task spawned at lib.rs 106-142 and the connection tasks the  *)
(* serve loop spawns.  A counter value below zero stands for the wrapped   *)
(* usize that fetch_sub leaves when it is applied to 0.                    *)
(***************************************************************************)
RECURSIVE Sum(_, _)
Sum(f, S) == IF S = {} THEN 0 ELSE LET x == CHOOSE y \in S : TRUE IN f[x] + Sum(f, S \ {x})
\* live ConnectionService values of all accept tasks
Live == Sum(services, Gens)

fetch_add(n) == n + 1
\* mutant: the teardown does not release the connection's count
fetch_sub_skipped(n) == n
fetch_sub(n) == n - 1

\* on_connected (108-115): count the connection, wrap the service
Admit(g) ==
    /\ UNCHANGED <<storeVars, lockVars>>
    /\ task[g] \in Serving
    /\ Live < MaxConns
    /\ connections' = [connections EXCEPT ![g] = fetch_add(connections[g])]
    /\ services' = [services EXCEPT ![g] = services[g] + 1]
    /\ UNCHANGED <<runtime, last_error, pc, local, task, spawned>>
    /\ ret' = NoRet
    /\ status_event' = None

\* the status-update callback a ConnectionService carries
on_status_update(conns) == Some(build_status(runtime, last_error, conns))

\* on_error (117-126): record the error of a failed connection, emit the status
on_error(err, conns) ==
    /\ last_error' = Some(err)
    /\ status_event' = Some(build_status(runtime, Some(err), conns))

\* modbus.rs: Drop for ConnectionService, run when the connection task ends;
\* withError: the task ended in an error, which the serve loop hands to on_error
DropService(g, withError) ==
    /\ UNCHANGED <<storeVars, lockVars>>
    /\ services[g] > 0
    /\ connections' = [connections EXCEPT ![g] = fetch_sub(connections[g])]
    /\ services' = [services EXCEPT ![g] = services[g] - 1]
    /\ IF withError
       THEN on_error("connection error", connections')
       ELSE /\ status_event' = on_status_update(connections')
            /\ UNCHANGED last_error
    /\ UNCHANGED <<runtime, pc, local, task, spawned>>
    /\ ret' = NoRet

\* serve_until returns a fatal accept error (131-133); the Server value and the
\* listener it owns are dropped at the end of that statement
ServeFails(g) ==
    /\ UNCHANGED <<storeVars, lockVars>>
    /\ task[g] \in {"serving", "signalled"}
    /\ task' = [task EXCEPT ![g] = "returned_err"]
    /\ UNCHANGED <<runtime, last_error, pc, local, connections, services, spawned>>
    /\ ret' = NoRet
    /\ status_event' = None

\* serve_until returns because the cancellation token fired (128-133)
ServeCancelled(g) ==
    /\ UNCHANGED <<storeVars, lockVars>>
    /\ task[g] = "signalled"
    /\ task' = [task EXCEPT ![g] = "returned_ok"]
    /\ UNCHANGED <<runtime, last_error, pc, local, connections, services, spawned>>
    /\ ret' = NoRet
    /\ status_event' = None

\* handle.abort() takes effect: the task is dropped at its await in serve_until
Aborted(g) ==
    /\ UNCHANGED <<storeVars, lockVars>>
    /\ task[g] = "signalled"
    /\ task' = [task EXCEPT ![g] = "aborted"]
    /\ UNCHANGED <<runtime, last_error, pc, local, connections, services, spawned>>
    /\ ret' = NoRet
    /\ status_event' = None

\* lines 135-141: after serve_until returned the task has no await left
Finalize(g) ==
    /\ UNCHANGED <<storeVars, lockVars>>
    /\ task[g] \in {"returned_ok", "returned_err"}
    /\ last_error' = IF task[g] = "returned_err" THEN Some("accept failed")
                                                  ELSE last_error
    /\ runtime' = None
    /\ status_event' = Some(build_status(runtime', last_error', connections))
    /\ task' = [task EXCEPT ![g] = "done"]
    /\ UNCHANGED <<pc, local, connections, services, spawned>>
    /\ ret' = NoRet

ServerNext ==
    \/ \E c \in Callers, host \in Hosts, p \in Ports : ServerStartEntry(c, host, p)
    \/ \E c \in Callers : StartBindFails(c)
    \/ \E c \in Callers : StartLocalAddrFails(c)
    \/ \E c \in Callers : StartSpawn(c)
    \/ \E c \in Callers : StartStore(c)
    \/ \E c \in Callers : StopTake(c)
    \/ \E c \in Callers : StopSignal(c)
    \/ \E c \in Callers : StopStatus(c)
    \/ \E c \in Callers : ServerStatus(c)
    \/ \E g \in Gens : Admit(g)
    \/ \E g \in Gens, withError \in BOOLEAN : DropService(g, withError)
    \/ \E g \in Gens : ServeFails(g)
    \/ \E g \in Gens : ServeCancelled(g)
    \/ \E g \in Gens : Aborted(g)
    \/ \E g \in Gens : Finalize(g)

(***************************************************************************)
(* modbus.rs: the register store and the request handler.                  *)
(*                                                                         *)
(* A slice or Vec is a sequence; the Rust index i is the TLA+ index i + 1. *)
(* Result<T, E> is [ok |-> TRUE, val |-> v] or [ok |-> FALSE, err |-> e].  *)
(***************************************************************************)
\* number of cells of each store area (STORE_SIZE is 1000 in modbus.rs)
STORE_SIZE == 2

U16 == 65536

Ok(v) == [ok |-> TRUE, val |-> v]
Err(e) == [ok |-> FALSE, err |-> e]

\* DataArea, under its serde names
DataArea == {"coils", "discrete", "input", "holding"}

\* ModbusStore::new(size)
ModbusStore_new(size) ==
    [coils |-> [i \in 1..size |-> FALSE],
     discrete_inputs |-> [i \in 1..size |-> FALSE],
     input_registers |-> [i \in 1..size |-> 0],
     holding_registers |-> [i \in 1..size |-> 0]]

\* `data.len() as u16`
as_u16(n) == n % U16

\* current & and_mask, (..) | or_mask on u16
RECURSIVE BitAnd(_, _)
BitAnd(a, b) == IF a = 0 \/ b = 0 THEN 0
                ELSE (a % 2) * (b % 2) + 2 * BitAnd(a \div 2, b \div 2)
RECURSIVE BitOr(_, _)
BitOr(a, b) == IF a = 0 THEN b
               ELSE IF b = 0 THEN a
               ELSE (IF a % 2 = 1 \/ b % 2 = 1 THEN 1 ELSE 0)
                    + 2 * BitOr(a \div 2, b \div 2)

\* mutant: the data is inserted at start instead of overwriting the range
copy_from_slice_inserting(values, start, end, data) ==
    SubSeq(values, 1, start) \o data \o SubSeq(values, start + 1, Len(values))

\* mutant: the copy starts one cell early
copy_from_slice_shifted(values, start, end, data) ==
    [i \in 1..Len(values) |-> IF start <= i /\ i < end THEN data[i - start + 1]
                                                        ELSE values[i]]

\* values[start..end].copy_from_slice(data), with end - start = data.len()
copy_from_slice(values, start, end, data) ==
    [i \in 1..Len(values) |-> IF start < i /\ i <= end THEN data[i - start]
                                                        ELSE values[i]]

\* values[index] = value
set_index(values, index, value) ==
    [i \in 1..Len(values) |-> IF i = index + 1 THEN value ELSE values[i]]

\* mutant: the end of the range is computed in u16 and wraps
range_wrapping(len, addr, qty) ==
    LET start == addr
        end == (start + qty) % U16
    IN IF end > len THEN Err("IllegalDataAddress")
       ELSE Ok(<<start, IF end < start THEN start ELSE end>>)

\* fn range: start and end are usize, their sum cannot wrap
range(len, addr, qty) ==
    LET start == addr
        end == start + qty
    IN IF end > len THEN Err("IllegalDataAddress") ELSE Ok(<<start, end>>)

\* fn slice_bool
slice_bool(values, addr, qty) ==
    LET r == range(Len(values), addr, qty)
    IN IF r.ok THEN Ok(SubSeq(values, r.val[1] + 1, r.val[2])) ELSE r

\* fn slice_u16
slice_u16(values, addr, qty) ==
    LET r == range(Len(values), addr, qty)
    IN IF r.ok THEN Ok(SubSeq(values, r.val[1] + 1, r.val[2])) ELSE r

\* fn read_single_u16
read_single_u16(values, addr) ==
    LET index == addr
    IN IF index < Len(values) THEN Ok(values[index + 1])
       ELSE Err("IllegalDataAddress")

\* fn write_bool: Ok(the slice after the write)
write_bool(values, addr, value) ==
    LET index == addr
    IN IF index >= Len(values) THEN Err("IllegalDataAddress")
       ELSE Ok([values |-> set_index(values, index, value), written |-> 1])

\* fn write_bools: Ok(the slice after the write and the count returned)
write_bools(values, addr, data) ==
    LET start == addr
        end == start + Len(data)
    IN IF end > Len(values) THEN Err("IllegalDataAddress")
       ELSE Ok([values |-> copy_from_slice(values, start, end, data),
                written |-> as_u16(Len(data))])

\* fn write_u16
write_u16(values, addr, value) ==
    LET index == addr
    IN IF index >= Len(values) THEN Err("IllegalDataAddress")
       ELSE Ok([values |-> set_index(values, index, value), written |-> 1])

\* mutant: the end of the written range is computed in u16 and wraps
write_u16s_wrapping(values, addr, data) ==
    LET start == addr
        end == (start + Len(data)) % U16
    IN IF end > Len(values) THEN Err("IllegalDataAddress")
       ELSE Ok([values |-> [i \in 1..Len(values) |->
                              IF i <= Len(data) THEN data[i] ELSE values[i]],
                written |-> as_u16(Len(data))])

\* fn write_u16s
write_u16s(values, addr, data) ==
    LET start == addr
        end == start + Len(data)
    IN IF end > Len(values) THEN Err("IllegalDataAddress")
       ELSE Ok([values |-> copy_from_slice(values, start, end, data),
                written |-> as_u16(Len(data))])

\* if value { 1 } else { 0 }
bool_to_u16(value) == IF value THEN 1 ELSE 0

\* fn bools_to_u16
bools_to_u16(values) == [i \in 1..Len(values) |-> bool_to_u16(values[i])]

\* mutant: the payload does not carry the starting offset
UpdatePayload_offset_lost(area, offset, values) ==
    [area |-> area, offset |-> 0, values |-> values]

\* UpdatePayload, as built by fn emit_update
UpdatePayload(area, offset, values) ==
    [area |-> area, offset |-> offset, values |-> values]

\* mutant: unit id 0 is not treated as "accept every request"
unit_matches_exact(unit_id, slave) == slave = unit_id

\* the test of modbus.rs line 115, negated: the request is for this server
unit_matches(unit_id, slave) == ~(unit_id # 0 /\ slave # unit_id)

\* mutant: an unsupported request is dropped without a response
unsupported_dropped == Ok(None)

\* lines 191-193: the reply to ReportServerId, ReadDeviceIdentification, Custom
unsupported == Err("IllegalFunction")

\* mutant: the masks are applied in the other order
mask_next_or_first(current, and_mask, or_mask) == BitAnd(BitOr(current, or_mask), and_mask)

\* line 177: (current & and_mask) | (or_mask)
mask_next(current, and_mask, or_mask) == BitOr(BitAnd(current, and_mask), or_mask)

\* &mut store.coils of the coil writes (lines 144, 152)
store_coils(st, values) == [st EXCEPT !.coils = values]

\* mutant: the register writes go to the input registers
store_holding_registers_as_input(st, values) == [st EXCEPT !.input_registers = values]

\* &mut store.holding_registers of the register writes (lines 160, 168, 178, 186)
store_holding_registers(st, values) == [st EXCEPT !.holding_registers = values]

\* what one run of a handler produces: the store it leaves, the value it returns
\* and the payloads it emitted on "modbus://updated", in order
Outcome(st, res, events) == [store |-> st, result |-> res, events |-> events]

\* fn handle_request, unit_id being the configured unit id and req a SlaveRequest
\* [slave, request]
handle_request(st, unit_id, req) ==
    LET r == req.request IN
    IF ~unit_matches(unit_id, req.slave) THEN Outcome(st, Ok(None), <<>>)
    ELSE CASE r.fn = "ReadCoils" ->
              LET v == slice_bool(st.coils, r.addr, r.qty)
              IN Outcome(st, IF v.ok THEN Ok(Some([fn |-> r.fn, values |-> v.val]))
                                     ELSE v, <<>>)
         [] r.fn = "ReadDiscreteInputs" ->
              LET v == slice_bool(st.discrete_inputs, r.addr, r.qty)
              IN Outcome(st, IF v.ok THEN Ok(Some([fn |-> r.fn, values |-> v.val]))
                                     ELSE v, <<>>)
         [] r.fn = "ReadInputRegisters" ->
              LET v == slice_u16(st.input_registers, r.addr, r.qty)
              IN Outcome(st, IF v.ok THEN Ok(Some([fn |-> r.fn, values |-> v.val]))
                                     ELSE v, <<>>)
         [] r.fn = "ReadHoldingRegisters" ->
              LET v == slice_u16(st.holding_registers, r.addr, r.qty)
              IN Outcome(st, IF v.ok THEN Ok(Some([fn |-> r.fn, values |-> v.val]))
                                     ELSE v, <<>>)
         [] r.fn = "WriteSingleCoil" ->
              LET w == write_bool(st.coils, r.addr, r.coil)
              IN IF ~w.ok THEN Outcome(st, w, <<>>)
                 ELSE Outcome(store_coils(st, w.val.values),
                              Ok(Some([fn |-> r.fn, addr |-> r.addr, coil |-> r.coil])),
                              <<UpdatePayload("coils", r.addr, <<bool_to_u16(r.coil)>>)>>)
         [] r.fn = "WriteMultipleCoils" ->
              LET w == write_bools(st.coils, r.addr, r.coils)
              IN IF ~w.ok THEN Outcome(st, w, <<>>)
                 ELSE Outcome(store_coils(st, w.val.values),
                              Ok(Some([fn |-> r.fn, addr |-> r.addr,
                                       written |-> w.val.written])),
                              <<UpdatePayload("coils", r.addr, bools_to_u16(r.coils))>>)
         [] r.fn = "WriteSingleRegister" ->
              LET w == write_u16(st.holding_registers, r.addr, r.word)
              IN IF ~w.ok THEN Outcome(st, w, <<>>)
                 ELSE Outcome(store_holding_registers(st, w.val.values),
                              Ok(Some([fn |-> r.fn, addr |-> r.addr, word |-> r.word])),
                              <<UpdatePayload("holding", r.addr, <<r.word>>)>>)
         [] r.fn = "WriteMultipleRegisters" ->
              LET w == write_u16s(st.holding_registers, r.addr, r.words)
              IN IF ~w.ok THEN Outcome(st, w, <<>>)
                 ELSE Outcome(store_holding_registers(st, w.val.values),
                              Ok(Some([fn |-> r.fn, addr |-> r.addr,
                                       written |-> w.val.written])),
                              <<UpdatePayload("holding", r.addr, r.words)>>)
         [] r.fn = "MaskWriteRegister" ->
              LET current == read_single_u16(st.holding_registers, r.addr)
              IN IF ~current.ok THEN Outcome(st, current, <<>>)
                 ELSE LET next == mask_next(current.val, r.and_mask, r.or_mask)
                          w == write_u16(st.holding_registers, r.addr, next)
                      IN IF ~w.ok THEN Outcome(st, w, <<>>)
                         ELSE Outcome(store_holding_registers(st, w.val.values),
                                      Ok(Some([fn |-> r.fn, addr |-> r.addr,
                                               and_mask |-> r.and_mask,
                                               or_mask |-> r.or_mask])),
                                      <<UpdatePayload("holding", r.addr, <<next>>)>>)
         [] r.fn = "ReadWriteMultipleRegisters" ->
              LET w == write_u16s(st.holding_registers, r.write_addr, r.words)
              IN IF ~w.ok THEN Outcome(st, w, <<>>)
                 ELSE LET st2 == store_holding_registers(st, w.val.values)
                          ev == <<UpdatePayload("holding", r.write_addr, r.words)>>
                          v == slice_u16(st2.holding_registers, r.read_addr, r.read_qty)
                      IN Outcome(st2, IF v.ok
                                      THEN Ok(Some([fn |-> r.fn, values |-> v.val]))
                                      ELSE v, ev)
         [] r.fn \in {"ReportServerId", "ReadDeviceIdentification", "Custom"} ->
              Outcome(st, unsupported, <<>>)

(***************************************************************************)
(* lib.rs: the management commands on the store.                           *)
(* A RegisterValue is [kind |-> "Bool", b |-> ..] or [kind |-> "Number",   *)
(* n |-> ..]; RegisterValues is [kind |-> "Bools", bools |-> ..] or        *)
(* [kind |-> "Numbers", numbers |-> ..].                                   *)
(***************************************************************************)
\* RegisterValue::as_bool
as_bool(value) == IF value.kind = "Bool" THEN value.b ELSE value.n # 0

\* RegisterValue::as_u16
as_u16_value(value) == IF value.kind = "Bool" THEN bool_to_u16(value.b) ELSE value.n

\* RegisterValues::into_bools
into_bools(values) ==
    IF values.kind = "Bools" THEN values.bools
    ELSE [i \in 1..Len(values.numbers) |-> values.numbers[i] # 0]

\* RegisterValues::into_u16s
into_u16s(values) ==
    IF values.kind = "Bools"
    THEN [i \in 1..Len(values.bools) |-> bool_to_u16(values.bools[i])]
    ELSE values.numbers

\* the store field of an area
field(st, area) ==
    CASE area = "coils" -> st.coils
      [] area = "discrete" -> st.discrete_inputs
      [] area = "input" -> st.input_registers
      [] area = "holding" -> st.holding_registers

with_field(st, area, values) ==
    CASE area = "coils" -> [st EXCEPT !.coils = values]
      [] area = "discrete" -> [st EXCEPT !.discrete_inputs = values]
      [] area = "input" -> [st EXCEPT !.input_registers = values]
      [] area = "holding" -> [st EXCEPT !.holding_registers = values]

IsBoolArea(area) == area \in {"coils", "discrete"}

\* fn register_snapshot
register_snapshot(st, area, offset, len) ==
    LET start == offset
        end == start + len
    IN IF end > STORE_SIZE THEN Err("Requested range is out of bounds")
       ELSE LET cells == SubSeq(field(st, area), start + 1, end)
            IN Ok(IF IsBoolArea(area) THEN bools_to_u16(cells) ELSE cells)

\* fn register_set
register_set(st, area, offset, value) ==
    LET index == offset
    IN IF index >= STORE_SIZE THEN Outcome(st, Err("Offset is out of bounds"), <<>>)
       ELSE Outcome(with_field(st, area,
                        set_index(field(st, area), index,
                                  IF IsBoolArea(area) THEN as_bool(value)
                                                      ELSE as_u16_value(value))),
                    Ok(<<>>), <<>>)

\* fn register_set_range
register_set_range(st, area, offset, values) ==
    LET start == offset
        data == IF IsBoolArea(area) THEN into_bools(values) ELSE into_u16s(values)
        end == start + Len(data)
    IN IF end > STORE_SIZE THEN Outcome(st, Err("Range is out of bounds"), <<>>)
       ELSE Outcome(with_field(st, area,
                               copy_from_slice(field(st, area), start, end, data)),
                    Ok(<<>>), <<>>)

(***************************************************************************)
(* The store operations as steps.  Every handler holds the store's RwLock  *)
(* from its first access to its return, so one handler is one step; the    *)
(* delivery of what it returned (the response written to the connection,   *)
(* the command's value handed to the caller) is the step after it.         *)
(***************************************************************************)
\* number of requests and commands handled in one behaviour
MaxOps == 2

NoCall == [api |-> "none"]

StoreInit ==
    /\ store = ModbusStore_new(STORE_SIZE)
    /\ call = NoCall
    /\ result = Ok(<<>>)
    /\ updates = <<>>
    /\ pre = store
    /\ last_write = None
    /\ ops = 0

\* ---- the requests and arguments the steps draw from ----
\* in range: 0 and the last cell; out of range: one past the end and u16::MAX
Addrs == {0, STORE_SIZE - 1, STORE_SIZE, U16 - 1}
Qtys == {1, STORE_SIZE, U16 - 1}
Lens == {1, STORE_SIZE, STORE_SIZE + 1}
\* <<b, b + 1, ..>>
Ramp(b, n) == [i \in 1..n |-> b + i - 1]
\* <<65535, 65534, ..>>
Down(n) == [i \in 1..n |-> U16 - i]
\* <<first, ~first, first, ..>>
Alt(first, n) == [i \in 1..n |-> (i % 2 = 1) = first]
\* <<5, 0, 5, ..>>
FiveZero(n) == [i \in 1..n |-> IF i % 2 = 1 THEN 5 ELSE 0]

WordLists == {Ramp(10, n) : n \in Lens} \cup {Down(n) : n \in Lens}
BoolLists == {Alt(b, n) : b \in BOOLEAN, n \in Lens}
\* <<configured unit id, unit id of the request>>: accept all, equal, different
UnitPairs == {<<0, 7>>, <<7, 7>>, <<7, 9>>}
\* <<and_mask, or_mask>>: 0b1100 / 0b0001, identity, 0xF0F0 / 0x0F0F
MaskPairs == {<<12, 1>>, <<U16 - 1, 0>>, <<61680, 3855>>}

ReadFns == {"ReadCoils", "ReadDiscreteInputs", "ReadInputRegisters",
            "ReadHoldingRegisters"}
ReadRequests == {[fn |-> f, addr |-> a, qty |-> q] : f \in ReadFns, a \in Addrs, q \in Qtys}
WriteRequests ==
    {[fn |-> "WriteSingleCoil", addr |-> a, coil |-> b] : a \in Addrs, b \in BOOLEAN}
    \cup {[fn |-> "WriteMultipleCoils", addr |-> a, coils |-> l] :
             a \in Addrs, l \in BoolLists}
    \cup {[fn |-> "WriteSingleRegister", addr |-> a, word |-> w] :
             a \in Addrs, w \in {10, U16 - 1}}
    \cup {[fn |-> "WriteMultipleRegisters", addr |-> a, words |-> l] :
             a \in Addrs, l \in WordLists}
MaskRequests ==
    {[fn |-> "MaskWriteRegister", addr |-> a, and_mask |-> m[1], or_mask |-> m[2]] :
        a \in Addrs, m \in MaskPairs}
ReadWriteRequests ==
    {[fn |-> "ReadWriteMultipleRegisters", read_addr |-> ra, read_qty |-> q,
      write_addr |-> wa, words |-> Ramp(20, n)] :
        ra \in {0, STORE_SIZE - 1, STORE_SIZE}, q \in {1, STORE_SIZE},
        wa \in {0, STORE_SIZE - 1, U16 - 1}, n \in {1, STORE_SIZE}}
UnsupportedRequests ==
    {[fn |-> f] : f \in {"ReportServerId", "ReadDeviceIdentification", "Custom"}}

RegisterValue == {[kind |-> "Bool", b |-> TRUE], [kind |-> "Number", n |-> 0],
                  [kind |-> "Number", n |-> 5]}
RegisterValues ==
    {[kind |-> "Bools", bools |-> Alt(TRUE, n)] : n \in Lens}
    \cup {[kind |-> "Numbers", numbers |-> FiveZero(n)] : n \in Lens}

\* the range writes the round-trip law is about
IsRangeWrite(c) ==
    \/ c.api = "register_set_range"
    \/ c.api = "modbus" /\ c.request.fn \in {"WriteMultipleCoils", "WriteMultipleRegisters"}

\* a step that handled call c and produced outcome o
Handled(c, o) ==
    /\ call = NoCall
    /\ ops < MaxOps
    /\ ops' = ops + 1
    /\ call' = c
    /\ pre' = store
    /\ LET out == o
       IN /\ store' = out.store
          /\ result' = out.result
          /\ updates' = out.events
    /\ last_write' = IF IsRangeWrite(c) /\ result'.ok
                           /\ (c.api = "modbus" => result'.val # None)
                     THEN Some(c)
                     ELSE IF store' # store THEN None ELSE last_write
    /\ UNCHANGED <<serverVars, lockVars>>

\* Service::call of a ConnectionService whose server was started with unit_id
Request(unit_id, slave, request) ==
    Handled([api |-> "modbus", unit_id |-> unit_id, slave |-> slave, request |-> request],
            handle_request(store, unit_id, [slave |-> slave, request |-> request]))

\* the command register_snapshot
RegisterSnapshot(area, offset, len) ==
    Handled([api |-> "register_snapshot", area |-> area, offset |-> offset, len |-> len],
            Outcome(store, register_snapshot(store, area, offset, len), <<>>))

\* the command register_set
RegisterSet(area, offset, value) ==
    Handled([api |-> "register_set", area |-> area, offset |-> offset, value |-> value],
            register_set(store, area, offset, value))

\* the command register_set_range
RegisterSetRange(area, offset, values) ==
    Handled([api |-> "register_set_range", area |-> area, offset |-> offset,
             values |-> values],
            register_set_range(store, area, offset, values))

\* the response or return value is delivered
Deliver ==
    /\ call # NoCall
    /\ call' = NoCall
    /\ result' = Ok(<<>>)
    /\ updates' = <<>>
    /\ pre' = store
    /\ UNCHANGED <<store, last_write, ops, serverVars, lockVars>>

StoreNext ==
    \/ \E u \in UnitPairs, r \in ReadRequests : Request(u[1], u[2], r)
    \/ \E u \in UnitPairs, r \in WriteRequests : Request(u[1], u[2], r)
    \/ \E u \in UnitPairs, r \in MaskRequests : Request(u[1], u[2], r)
    \/ \E u \in UnitPairs, r \in ReadWriteRequests : Request(u[1], u[2], r)
    \/ \E u \in UnitPairs, r \in UnsupportedRequests : Request(u[1], u[2], r)
    \/ \E a \in DataArea, o \in Addrs, n \in Qtys : RegisterSnapshot(a, o, n)
    \/ \E a \in DataArea, o \in Addrs, v \in RegisterValue : RegisterSet(a, o, v)
    \/ \E a \in DataArea, o \in Addrs, v \in RegisterValues : RegisterSetRange(a, o, v)
    \/ Deliver

(***************************************************************************)
(* The store's RwLock, cell by cell.  A handler takes the lock (read() for *)
(* the reads, write() for everything that writes), then reads or writes    *)
(* the cells of its range one at a time (to_vec and copy_from_slice are    *)
(* not single memory operations), and drops the guard when it returns.     *)
(* Handlers run on the connections' tasks and on the command's thread.     *)
(* The calls are in range and on the holding registers; range checks are   *)
(* the subject of the steps above.                                         *)
(***************************************************************************)
\* number of calls begun in one behaviour
MaxCalls == 4

ConnectionTasks == {"conn1", "conn2"}
CommandThreads == {"ui"}
Threads == ConnectionTasks \cup CommandThreads

Idle == [st |-> "idle"]
NoDone == [thread |-> "none"]

LockInit ==
    /\ th = [t \in Threads |-> Idle]
    /\ done = NoDone

\* RwLock::read: granted unless a thread holds the lock for writing
try_read(holders) == \A u \in Threads : holders[u].st = "held" => holders[u].mode = "read"

\* mutant: write() is granted while readers hold the lock
try_write_beside_readers(holders) ==
    \A u \in Threads : holders[u].st = "held" => holders[u].mode = "read"

\* RwLock::write: granted when no thread holds the lock
try_write(holders) == \A u \in Threads : holders[u].st = "idle"

\* which of store.read() and store.write() the handler of call c calls
lock_mode(c) ==
    IF \/ c.api = "register_snapshot"
       \/ c.api = "modbus" /\ c.request.fn \in ReadFns
    THEN "read" ELSE "write"

\* values[start..end].to_vec(), one cell after the other
to_vec_steps(addr, qty) == [j \in 1..qty |-> [op |-> "read", i |-> addr + j]]

\* values[start..end].copy_from_slice(data), one cell after the other
copy_steps(addr, data) ==
    [j \in 1..Len(data) |-> [op |-> "write", i |-> addr + j, v |-> data[j]]]

\* mutant: the read of Read/Write Multiple Registers comes before its write
read_write_steps_read_first(r) ==
    to_vec_steps(r.read_addr, r.read_qty) \o copy_steps(r.write_addr, r.words)

\* modbus.rs lines 186-188: write_u16s, then slice_u16
read_write_steps(r) ==
    copy_steps(r.write_addr, r.words) \o to_vec_steps(r.read_addr, r.read_qty)

\* the accesses to the holding registers that the handler of call c makes
steps(c) ==
    CASE c.api = "register_snapshot" -> to_vec_steps(c.offset, c.len)
      [] c.api = "register_set_range" -> copy_steps(c.offset, into_u16s(c.values))
      [] c.api = "modbus" /\ c.request.fn = "ReadHoldingRegisters" ->
            to_vec_steps(c.request.addr, c.request.qty)
      [] c.api = "modbus" /\ c.request.fn = "WriteMultipleRegisters" ->
            copy_steps(c.request.addr, c.request.words)
      [] c.api = "modbus" /\ c.request.fn = "MaskWriteRegister" ->
            <<[op |-> "read", i |-> c.request.addr + 1],
              [op |-> "mask", i |-> c.request.addr + 1,
               and_mask |-> c.request.and_mask, or_mask |-> c.request.or_mask]>>
      [] c.api = "modbus" /\ c.request.fn = "ReadWriteMultipleRegisters" ->
            read_write_steps(c.request)

\* what the handler of call c returns once it has read the values acc
reply(c, acc) ==
    CASE c.api = "register_snapshot" -> Ok(acc)
      [] c.api = "register_set_range" -> Ok(<<>>)
      [] c.api = "modbus" /\ c.request.fn \in {"ReadHoldingRegisters",
                                               "ReadWriteMultipleRegisters"} ->
            Ok(Some([fn |-> c.request.fn, values |-> acc]))
      [] c.api = "modbus" /\ c.request.fn = "WriteMultipleRegisters" ->
            Ok(Some([fn |-> c.request.fn, addr |-> c.request.addr,
                     written |-> Len(c.request.words)]))
      [] c.api = "modbus" /\ c.request.fn = "MaskWriteRegister" ->
            Ok(Some([fn |-> c.request.fn, addr |-> c.request.addr,
                     and_mask |-> c.request.and_mask, or_mask |-> c.request.or_mask]))

\* store.read() / store.write() of the handler of call c on thread t returns
Acquire(t, c) ==
    /\ th[t] = Idle
    /\ ops < MaxCalls
    /\ IF lock_mode(c) = "read" THEN try_read(th) ELSE try_write(th)
    /\ ops' = ops + 1
    /\ th' = [th EXCEPT ![t] = [st |-> "held", mode |-> lock_mode(c), call |-> c,
                                k |-> 0, acc |-> <<>>, snap |-> store]]
    /\ done' = NoDone
    /\ UNCHANGED <<store, call, result, updates, pre, last_write, serverVars>>

\* the handler on thread t reads or writes its next cell
Cell(t) ==
    /\ th[t].st = "held"
    /\ th[t].k < Len(steps(th[t].call))
    /\ LET s == steps(th[t].call)[th[t].k + 1]
           regs == store.holding_registers
           acc == th[t].acc
       IN CASE s.op = "read" ->
                 /\ th' = [th EXCEPT ![t].k = @ + 1, ![t].acc = Append(@, regs[s.i])]
                 /\ UNCHANGED store
            [] s.op = "write" ->
                 /\ th' = [th EXCEPT ![t].k = @ + 1]
                 /\ store' = [store EXCEPT !.holding_registers[s.i] = s.v]
            [] s.op = "mask" ->
                 /\ th' = [th EXCEPT ![t].k = @ + 1]
                 /\ store' = [store EXCEPT !.holding_registers[s.i] =
                                 mask_next(acc[Len(acc)], s.and_mask, s.or_mask)]
    /\ done' = NoDone
    /\ UNCHANGED <<call, result, updates, pre, last_write, ops, serverVars>>

\* the handler on thread t returns and its guard is dropped
Release(t) ==
    /\ th[t].st = "held"
    /\ th[t].k = Len(steps(th[t].call))
    /\ done' = [thread |-> t, call |-> th[t].call, mode |-> th[t].mode,
                snap |-> th[t].snap, result |-> reply(th[t].call, th[t].acc)]
    /\ th' = [th EXCEPT ![t] = Idle]
    /\ UNCHANGED <<storeVars, serverVars>>

\* the requests of the connections: server started with unit id 0
LockRequests ==
    {[fn |-> "ReadHoldingRegisters", addr |-> 0, qty |-> STORE_SIZE],
     [fn |-> "ReadHoldingRegisters", addr |-> STORE_SIZE - 1, qty |-> 1]}
    \cup {[fn |-> "WriteMultipleRegisters", addr |-> 0, words |-> Ramp(b, STORE_SIZE)] :
             b \in {10, 20}}
    \cup {[fn |-> "WriteMultipleRegisters", addr |-> STORE_SIZE - 1, words |-> <<40>>]}
    \cup {[fn |-> "MaskWriteRegister", addr |-> a, and_mask |-> m[1], or_mask |-> m[2]] :
             a \in {0, STORE_SIZE - 1}, m \in MaskPairs}
    \cup {[fn |-> "ReadWriteMultipleRegisters", read_addr |-> 0,
           read_qty |-> STORE_SIZE, write_addr |-> STORE_SIZE - 1, words |-> <<30>>],
          [fn |-> "ReadWriteMultipleRegisters", read_addr |-> STORE_SIZE - 1,
           read_qty |-> 1, write_addr |-> 0, words |-> Ramp(50, STORE_SIZE)]}

\* the commands of the user interface
LockCommands ==
    {[api |-> "register_snapshot", area |-> "holding", offset |-> 0,
      len |-> STORE_SIZE],
     [api |-> "register_set_range", area |-> "holding", offset |-> 0,
      values |-> [kind |-> "Numbers", numbers |-> FiveZero(STORE_SIZE)]]}

LockNext ==
    \/ \E t \in ConnectionTasks, r \in LockRequests :
          Acquire(t, [api |-> "modbus", unit_id |-> 0, slave |-> 1, request |-> r])
    \/ \E t \in CommandThreads, c \in LockCommands : Acquire(t, c)
    \/ \E t \in Threads : Cell(t)
    \/ \E t \in Threads : Release(t)

(***************************************************************************)
(* Specifications: the server runtime controller (Spec) and the store      *)
(* operations (SpecStore).                                                 *)
(***************************************************************************)
Init == ServerInit /\ StoreInit /\ LockInit

Next == ServerNext

Spec == Init /\ [][Next]_vars

SpecStore == Init /\ [][StoreNext]_vars

SpecLock == Init /\ [][LockNext]_vars

(***************************************************************************)
(* Claims about the server runtime controller, checked under Spec.         *)
(***************************************************************************)
\* accept loops that are live and that no server_stop has signalled
LiveLoops == {g \in Gens : task[g] = "serving"}

\* C1: single-runtime invariant: at most one accept loop is live at any time, and
\* a runtime record that is present refers to the live loop.  (Loops that a
\* server_stop has already signalled are not counted.)
C1_SingleRuntime ==
    /\ Cardinality(LiveLoops) <= 1
    /\ runtime # None => LiveLoops \subseteq {runtime[1].gen}

\* C2: a server_start entered while a runtime record is present returns the
\* current status, with the bind address the record holds, and changes neither the
\* record, last_error, the accept tasks (none is spawned) nor the counters; the
\* start that stored the record returned that same bind address.
C2_StartWhileRunningIsNoOp ==
    /\ [](ret.op = "server_start" /\ ret.at = "started"
            => runtime # None /\ ret.status.bind = runtime[1].bind)
    /\ [][\A c \in Callers, host \in Hosts, p \in Ports :
            (runtime # None /\ ServerStartEntry(c, host, p)) =>
                /\ ret'.op = "server_start" /\ ret'.caller = c /\ ret'.ok
                /\ ret'.status = [running |-> TRUE, bind |-> runtime[1].bind,
                                  connections |-> connections[runtime[1].gen],
                                  last_error |-> last_error]
                /\ UNCHANGED <<runtime, last_error, pc, local, task, connections,
                               services, spawned>>]_vars

\* a second server_start has just returned early from a running server that has a
\* recorded error and a live connection
C2_Witness ==
    /\ ret.op = "server_start" /\ ret.at = "already_running"
    /\ runtime # None
    /\ ret.status.last_error # None
    /\ ret.status.connections > 0

\* C3: the connection counter of every runtime is never negative and equals the
\* number of live ConnectionService values admitted by that runtime's accept loop,
\* and the status of a running server reports that number.
C3_ConnectionCounter ==
    /\ \A g \in Gens : connections[g] >= 0 /\ connections[g] = services[g]
    /\ runtime # None =>
         build_status(runtime, last_error, connections).connections
             = services[runtime[1].gen]

\* a restarted server (the second runtime) whose teardown of one of two
\* connections has just been reported with count 1
C3_Witness ==
    /\ runtime # None /\ runtime[1].gen = 2
    /\ services[2] = 1 /\ connections[2] = 1
    /\ task[1] \in {"done", "aborted"}
    /\ status_event # None /\ status_event[1].running
    /\ status_event[1].connections = 1


(***************************************************************************)
(* Claims about the store operations, checked under SpecStore.             *)
(***************************************************************************)
\* the last step handled a Modbus request that passed the unit-id filter
Accepted == call.api = "modbus" /\ (call.unit_id = 0 \/ call.slave = call.unit_id)

RangeWriteFns == {"WriteMultipleCoils", "WriteMultipleRegisters"}

\* the number of values of the range write request r
WriteLen(r) == IF r.fn = "WriteMultipleCoils" THEN Len(r.coils) ELSE Len(r.words)

\* the number of values of the management range write c
ValuesLen(values) ==
    IF values.kind = "Bools" THEN Len(values.bools) ELSE Len(values.numbers)

\* C5: a range read or range write with addr + qty > N fails with the
\* address-out-of-range error (IllegalDataAddress for a request that the unit-id
\* filter let through, an out-of-bounds error string for a management command)
\* and leaves all four areas as they were; the sum is not taken modulo 2^16.
C5_OutOfRangeRejected ==
    /\ (Accepted /\ call.request.fn \in ReadFns
               /\ call.request.addr + call.request.qty > STORE_SIZE)
          => result = Err("IllegalDataAddress") /\ store = pre
    /\ (Accepted /\ call.request.fn \in RangeWriteFns
               /\ call.request.addr + WriteLen(call.request) > STORE_SIZE)
          => result = Err("IllegalDataAddress") /\ store = pre
    /\ (Accepted /\ call.request.fn = "ReadWriteMultipleRegisters"
               /\ call.request.write_addr + Len(call.request.words) > STORE_SIZE)
          => result = Err("IllegalDataAddress") /\ store = pre
    /\ (call.api = "register_snapshot" /\ call.offset + call.len > STORE_SIZE)
          => result = Err("Requested range is out of bounds") /\ store = pre
    /\ (call.api = "register_set_range"
               /\ call.offset + ValuesLen(call.values) > STORE_SIZE)
          => result = Err("Range is out of bounds") /\ store = pre

\* a read of 65535 cells at address 65535 was rejected on a store that holds data
C5_Witness ==
    /\ Accepted /\ call.request.fn = "ReadHoldingRegisters"
    /\ call.request.addr = 65535 /\ call.request.qty = 65535
    /\ result = Err("IllegalDataAddress")
    /\ pre # ModbusStore_new(STORE_SIZE)

\* the last step read, through the same interface, the range that the last range
\* write wrote, and no write came between the two
ReadsBackManagement ==
    /\ last_write # None /\ last_write[1].api = "register_set_range"
    /\ call.api = "register_snapshot"
    /\ call.area = last_write[1].area /\ call.offset = last_write[1].offset
    /\ call.len = ValuesLen(last_write[1].values)
ReadsBackCoils ==
    /\ last_write # None /\ last_write[1].api = "modbus"
    /\ last_write[1].request.fn = "WriteMultipleCoils"
    /\ Accepted /\ call.request.fn = "ReadCoils"
    /\ call.request.addr = last_write[1].request.addr
    /\ call.request.qty = Len(last_write[1].request.coils)
ReadsBackRegisters ==
    /\ last_write # None /\ last_write[1].api = "modbus"
    /\ last_write[1].request.fn = "WriteMultipleRegisters"
    /\ Accepted /\ call.request.fn = "ReadHoldingRegisters"
    /\ call.request.addr = last_write[1].request.addr
    /\ call.request.qty = Len(last_write[1].request.words)
ProtocolRoundTrip ==
    /\ ReadsBackCoils =>
         result = Ok(Some([fn |-> "ReadCoils",
                           values |-> last_write[1].request.coils]))
    /\ ReadsBackRegisters =>
         result = Ok(Some([fn |-> "ReadHoldingRegisters",
                           values |-> last_write[1].request.words]))

\* the values as written, booleans as 0/1
AsWritten(values) ==
    IF values.kind = "Bools"
    THEN [i \in 1..Len(values.bools) |-> IF values.bools[i] THEN 1 ELSE 0]
    ELSE values.numbers

\* the values as a bool area keeps them: 0 stays 0, any other number becomes 1
AsKept(area, values) ==
    IF area \in {"coils", "discrete"} /\ values.kind = "Numbers"
    THEN [i \in 1..Len(values.numbers) |-> IF values.numbers[i] = 0 THEN 0 ELSE 1]
    ELSE AsWritten(values)

\* C6 as stated: a range write followed, with no write between, by a read of the
\* same area, address and length returns exactly the written values, through the
\* management commands (all four areas, bool and uint16 lists) and the protocol.
C6_RoundTripExact ==
    /\ ReadsBackManagement => result = Ok(AsWritten(last_write[1].values))
    /\ ProtocolRoundTrip

\* C6 amended: the read returns the written values, except that a uint16 list
\* written to a bool area (coils, discrete inputs) reads back with every non-zero
\* number as 1.
C6_RoundTripKept ==
    /\ ReadsBackManagement =>
         result = Ok(AsKept(last_write[1].area, last_write[1].values))
    /\ ProtocolRoundTrip

\* a uint16 list <<5, 0>> written to the discrete inputs has been read back
C6_Witness ==
    /\ ReadsBackManagement
    /\ call.area = "discrete" /\ call.len = 2
    /\ last_write[1].values.kind = "Numbers"
    /\ result.ok

\* C7: a request whose unit id differs from a non-zero configured unit id gets no
\* response (neither a response nor an exception), changes no area and emits no
\* event; with configured unit id 0 every request is processed, exactly as a
\* request with the matching unit id is.
C7_UnitIdFilter ==
    call.api = "modbus" =>
        /\ (call.unit_id # 0 /\ call.slave # call.unit_id)
              => result = Ok(None) /\ store = pre /\ updates = <<>>
        /\ call.unit_id = 0 =>
              /\ result # Ok(None)
              /\ LET same == handle_request(pre, call.slave,
                                 [slave |-> call.slave, request |-> call.request])
                 IN store = same.store /\ result = same.result
                    /\ updates = same.events

\* an in-range register write addressed to another unit was dropped
C7_Witness ==
    /\ call.api = "modbus" /\ call.unit_id = 7 /\ call.slave = 9
    /\ call.request.fn = "WriteMultipleRegisters" /\ call.request.addr = 0
    /\ result = Ok(None)

UnsupportedFns == {"ReportServerId", "ReadDeviceIdentification", "Custom"}

\* C8 as stated: an unsupported request yields an illegal-function exception for
\* every configured unit id and every request unit id, and never changes the store.
C8_UnsupportedAlwaysException ==
    (call.api = "modbus" /\ call.request.fn \in UnsupportedFns)
        => result = Err("IllegalFunction") /\ store = pre

\* C8 amended: an unsupported request that passes the unit-id filter (configured
\* unit id 0 or equal to the request's) yields an illegal-function exception; one
\* that does not pass it is dropped like any other request; neither changes the
\* store.
C8_UnsupportedException ==
    (call.api = "modbus" /\ call.request.fn \in UnsupportedFns) =>
        /\ store = pre /\ updates = <<>>
        /\ result = IF call.unit_id = 0 \/ call.slave = call.unit_id
                    THEN Err("IllegalFunction") ELSE Ok(None)

\* an unsupported request was answered with the exception on a store holding data
C8_Witness ==
    /\ Accepted /\ call.request.fn = "ReadDeviceIdentification"
    /\ result = Err("IllegalFunction")
    /\ pre # ModbusStore_new(STORE_SIZE)


(***************************************************************************)
(* Claims about concurrent use of the store, checked under SpecLock.       *)
(***************************************************************************)
\* what call c does and returns when it runs alone on store st
Alone(st, c) ==
    CASE c.api = "modbus" ->
            handle_request(st, c.unit_id, [slave |-> c.slave, request |-> c.request])
      [] c.api = "register_snapshot" ->
            Outcome(st, register_snapshot(st, c.area, c.offset, c.len), <<>>)
      [] c.api = "register_set_range" ->
            register_set_range(st, c.area, c.offset, c.values)

\* C4: no torn reads or writes.  While a handler holds the lock for writing no
\* other handler is inside the store; while a handler reads, the store stays as
\* it was when the read began; and every completed call returned what it would
\* return, and a completed write left the store as it would leave it, had it run
\* alone on the store as it was when the call took the lock (so overlapping range
\* writes leave one writer's values in full).
C4_NoTornAccess ==
    /\ \A t \in Threads : (th[t].st = "held" /\ th[t].mode = "write") =>
          \A u \in Threads \ {t} : th[u] = Idle
    /\ \A t \in Threads : (th[t].st = "held" /\ th[t].mode = "read") =>
          store = th[t].snap
    /\ done # NoDone =>
          /\ done.result = Alone(done.snap, done.call).result
          /\ store = Alone(done.snap, done.call).store

\* a connection's read of the whole range completed while the user interface
\* was reading too, after a write by the other connection had changed both cells
C4_Witness ==
    /\ done # NoDone /\ done.thread = "conn1"
    /\ done.call.request.fn = "ReadHoldingRegisters"
    /\ done.result.val[1].values = Ramp(20, STORE_SIZE)
    /\ th["ui"].st = "held" /\ th["ui"].mode = "read"

\* C9: a completed Mask Write Register on an in-range address left the register
\* at (current & and_mask) | or_mask, where current is the register's value when
\* the handler took the lock (no other write came between), left every other cell
\* alone, and answered with (addr, and_mask, or_mask).
C9_MaskWrite ==
    (done # NoDone /\ done.call.api = "modbus"
                   /\ done.call.request.fn = "MaskWriteRegister") =>
        LET r == done.call.request
            current == done.snap.holding_registers[r.addr + 1]
        IN /\ store = [done.snap EXCEPT !.holding_registers[r.addr + 1] =
                          BitOr(BitAnd(current, r.and_mask), r.or_mask)]
           /\ done.result = Ok(Some([fn |-> "MaskWriteRegister", addr |-> r.addr,
                                     and_mask |-> r.and_mask, or_mask |-> r.or_mask]))

\* the register held 0b1010 and a mask write with 0b1100 and 0b0001 left 0b1001
C9_Witness ==
    /\ done # NoDone /\ done.call.api = "modbus"
    /\ done.call.request.fn = "MaskWriteRegister"
    /\ done.call.request.and_mask = 12 /\ done.call.request.or_mask = 1
    /\ done.snap.holding_registers[done.call.request.addr + 1] = 10
    /\ store.holding_registers[done.call.request.addr + 1] = 9

\* C10: a completed Read/Write Multiple Registers with both ranges in range
\* returned, for every address of the read range, the word it has just written if
\* the address is in the write range and otherwise the register's value when the
\* handler took the lock; no other write is visible in what it returned.
C10_WriteThenRead ==
    (done # NoDone /\ done.call.api = "modbus"
                   /\ done.call.request.fn = "ReadWriteMultipleRegisters") =>
        LET r == done.call.request
            InWrite(a) == r.write_addr <= a /\ a < r.write_addr + Len(r.words)
            expected ==
                [j \in 1..r.read_qty |->
                    LET a == r.read_addr + j - 1
                    IN IF InWrite(a) THEN r.words[a - r.write_addr + 1]
                       ELSE done.snap.holding_registers[a + 1]]
        IN done.result = Ok(Some([fn |-> "ReadWriteMultipleRegisters",
                                  values |-> expected]))

\* the read range covered a register the call wrote, which held another value
\* before, and a register it did not write, which held data
C10_Witness ==
    /\ done # NoDone /\ done.call.api = "modbus"
    /\ done.call.request.fn = "ReadWriteMultipleRegisters"
    /\ LET r == done.call.request
       IN /\ r.read_addr = 0 /\ r.read_qty = STORE_SIZE
          /\ r.write_addr = STORE_SIZE - 1
          /\ done.snap.holding_registers = Ramp(10, STORE_SIZE)
          /\ done.result.ok


(***************************************************************************)
(* Claims about events and exceptions of the request handler, checked      *)
(* under SpecStore.                                                        *)
(***************************************************************************)
CoilWriteFns == {"WriteSingleCoil", "WriteMultipleCoils"}
RegisterWriteFns == {"WriteSingleRegister", "WriteMultipleRegisters",
                     "MaskWriteRegister", "ReadWriteMultipleRegisters"}

\* the first address the write request r writes
WriteAddr(r) == IF r.fn = "ReadWriteMultipleRegisters" THEN r.write_addr ELSE r.addr

\* the number of cells the write request r writes
WriteCount(r) ==
    CASE r.fn = "WriteMultipleCoils" -> Len(r.coils)
      [] r.fn \in {"WriteMultipleRegisters", "ReadWriteMultipleRegisters"} -> Len(r.words)
      [] OTHER -> 1

\* the cells the write request r wrote as store st holds them, booleans as 0/1
StoredCells(st, r) ==
    IF r.fn \in CoilWriteFns
    THEN [j \in 1..WriteCount(r) |-> IF st.coils[WriteAddr(r) + j] THEN 1 ELSE 0]
    ELSE [j \in 1..WriteCount(r) |-> st.holding_registers[WriteAddr(r) + j]]

\* C11: a write request that is answered with a response emitted exactly one
\* data-changed event, carrying the area written, the first address written and
\* the values the written cells now hold (booleans as 0/1); a read request
\* emitted none.
C11_OneEventPerWrite ==
    /\ (Accepted /\ call.request.fn \in CoilWriteFns \cup RegisterWriteFns /\ result.ok)
          => updates = <<[area |-> IF call.request.fn \in CoilWriteFns
                                   THEN "coils" ELSE "holding",
                          offset |-> WriteAddr(call.request),
                          values |-> StoredCells(store, call.request)]>>
    /\ (call.api = "modbus" /\ call.request.fn \in ReadFns) => updates = <<>>

\* a write of the coils to the last cell changed it and emitted its 0/1 value
C11_Witness ==
    /\ Accepted /\ call.request.fn = "WriteSingleCoil"
    /\ call.request.addr = STORE_SIZE - 1 /\ call.request.coil
    /\ result.ok /\ store # pre
    /\ updates[1].values = <<1>>


(***************************************************************************)
(* Claims about the server runtime controller, checked under Spec.         *)
(***************************************************************************)
\* C12: every step that increments or decrements a connection counter emits a
\* status-changed event whose payload carries the new count.
C12_StatusEventOnAdmitAndRelease ==
    [][\A g \in Gens :
          connections'[g] # connections[g] =>
              /\ status_event' # None
              /\ status_event'[1].connections = connections'[g]]_vars


\* the status of a stopped server
StoppedStatus(status) ==
    status.running = FALSE /\ status.bind = EmptyString /\ status.connections = 0

\* a server_stop that found the server running returns, and emits, a stopped status
StopReportsStopped ==
    [][\A c \in Callers :
          (pc[c] = "stop_status" /\ pc'[c] = "idle" /\ local[c].taken # None) =>
              /\ StoppedStatus(ret'.status)
              /\ status_event' = Some(ret'.status)]_vars

\* once the record is cleared only the last part of a server_start sets it again
StoppedUntilStarted ==
    [][(runtime = None /\ runtime' # None) =>
          \E c \in Callers : pc[c] = "start_store" /\ pc'[c] = "idle"]_vars

\* the last step of an accept loop that server_stop cancelled leaves the record
\* and the last error as they are
StoppedLoopIsSilent ==
    [][\A g \in Gens :
          (task[g] = "returned_ok" /\ task'[g] = "done") =>
              runtime' = runtime /\ last_error' = last_error]_vars

\* C13: server_stop on a running server returns and emits a status with
\* running = false, empty bind and connections = 0; the server then stays stopped
\* until a server_start stores a new record; and no step of the stopped accept
\* loop changes the runtime state afterwards.
C13_StopStops == StopReportsStopped /\ StoppedUntilStarted /\ StoppedLoopIsSilent


\* the steps of a server_stop that found no record leave the record and the last
\* error as they are
IdleStopChangesNothing ==
    [][\A c \in Callers :
          \/ (pc[c] = "idle" /\ pc'[c] = "stop_signal" /\ runtime = None)
          \/ (pc[c] \in {"stop_signal", "stop_status"} /\ pc'[c] # pc[c]
                /\ local[c].taken = None)
          => runtime' = runtime /\ last_error' = last_error]_vars

\* a server_stop that found no record returns a stopped status without error
IdleStopReportsStopped ==
    [][\A c \in Callers :
          (pc[c] = "stop_status" /\ pc'[c] = "idle" /\ local[c].taken = None) =>
              ret'.ok /\ StoppedStatus(ret'.status)]_vars

\* C14: server_stop on a server that is not running returns running = false and
\* connections = 0 without error and leaves the runtime record and last_error
\* unchanged.
C14_StopWhenStopped == IdleStopChangesNothing /\ IdleStopReportsStopped


\* caller c's server_start returns from its failed bind in this step
BindFailure(c) == pc[c] = "start_bind" /\ pc'[c] = "idle" /\ ret'.at = "bind"

\* a failed bind records the error, returns it, emits a status that carries it
\* and spawns no accept task
BindFailureRecorded ==
    [][\A c \in Callers :
          BindFailure(c) =>
              /\ ~ret'.ok
              /\ last_error' = Some(ret'.err)
              /\ status_event' # None
              /\ status_event'[1].last_error = Some(ret'.err)
              /\ task' = task /\ spawned' = spawned /\ runtime' = runtime]_vars

\* after a failed bind the server is stopped and the emitted status says so
BindFailureLeavesStopped ==
    [][\A c \in Callers :
          BindFailure(c) =>
              /\ runtime' = None
              /\ status_event' # None
              /\ status_event'[1].running = FALSE]_vars

\* C15: a server_start whose bind fails records the error in last_error, emits a
\* status-changed event with running = false and that error, returns the error,
\* and the server stays stopped: no runtime record, no accept loop spawned.
C15_BindFailure == BindFailureRecorded /\ BindFailureLeavesStopped


\* no step of a server_stop changes last_error
StopKeepsLastError ==
    [][\A c \in Callers :
          (pc'[c] # pc[c] /\ (pc[c] \in {"stop_signal", "stop_status"}
                               \/ pc'[c] = "stop_signal"))
          => last_error' = last_error]_vars

\* a server_start that returns early because the server is running keeps last_error
EarlyReturnKeepsLastError ==
    [][(ret'.op = "server_start" /\ ret'.at = "already_running")
          => last_error' = last_error]_vars

\* a server_start that returns an error does not clear a recorded error
FailedStartKeepsLastError ==
    [][(ret'.op = "server_start" /\ ~ret'.ok /\ last_error # None)
          => last_error' # None]_vars

\* C16: a recorded last_error stays recorded until a server_start succeeds;
\* server_stop, a server_start that returns early because the server is running,
\* and a server_start that fails do not clear it.
C16_LastErrorPersists ==
    StopKeepsLastError /\ EarlyReturnKeepsLastError /\ FailedStartKeepsLastError


\* the last step of an accept task clears the record, records a fatal error and
\* emits a status with running = false
LoopEndClearsRecord ==
    [][\A g \in Gens :
          (task[g] \in {"returned_ok", "returned_err"} /\ task'[g] = "done") =>
              /\ runtime' = None
              /\ task[g] = "returned_err" => last_error' # None
              /\ status_event' # None
              /\ status_event'[1].running = FALSE
              /\ status_event'[1].last_error = last_error']_vars

\* the record never names an accept loop that has terminated on its own
NoRecordOfEndedLoop == [](runtime # None => task[runtime[1].gen] # "done")

\* C17: when the accept loop terminates on its own the runtime record is cleared,
\* a fatal error is recorded, a final status with running = false is emitted, and
\* the server is not reported running on behalf of that loop afterwards, also when
\* the loop terminates before server_start has stored the record.
C17_LoopEndStops == LoopEndClearsRecord /\ NoRecordOfEndedLoop


\* the address the listener of the g-th successful bind reports
BoundAddress(g) == <<"127.0.0.1", assigned_port(g)>>

\* a status snapshot that agrees with the runtime state
Consistent(status) ==
    /\ ~status.running => status.bind = EmptyString /\ status.connections = 0
    /\ status.running =>
          /\ runtime # None
          /\ status.bind = BoundAddress(runtime[1].gen)
          /\ status.connections = connections[runtime[1].gen]
    /\ status.last_error = last_error

\* C18: every status returned by server_start, server_stop or server_status and
\* every status carried by a status-changed event is consistent with the runtime
\* state as it is when the snapshot is built: not running, empty bind and no
\* connections, or running with the address bound by the start that created the
\* current record and the value of that runtime's connection counter.
C18_StatusConsistent ==
    /\ (ret # NoRet /\ ret.ok) => Consistent(ret.status)
    /\ status_event # None => Consistent(status_event[1])

\* server_status reported the second runtime as running with one connection
\* while a connection of the first, stopped runtime was still open
C18_Witness ==
    /\ ret # NoRet /\ ret.op = "server_status"
    /\ ret.status.running /\ ret.status.connections = 1
    /\ runtime[1].gen = 2
    /\ connections[1] = 1


\* C19 (checked under SpecStore): a protocol request that is answered with an
\* exception left all four areas as they were before it and emitted no
\* data-changed event.
C19_ExceptionChangesNothing ==
    (call.api = "modbus" /\ ~result.ok) => store = pre /\ updates = <<>>


\* C20: the last step of an accept task never clears a runtime record that
\* another server_start created: when the record names another accept loop, the
\* step leaves it in place.
C20_LoopEndClearsOwnRecordOnly ==
    [][\A g \in Gens :
          (task[g] \in {"returned_ok", "returned_err"} /\ task'[g] = "done"
             /\ runtime # None /\ runtime[1].gen # g)
          => runtime' = runtime]_vars


(***************************************************************************)
(* Claims about what a write leaves alone, checked under SpecStore.        *)
(***************************************************************************)
\* C21: no protocol request changes the discrete inputs or the input registers;
\* a step that changes one of these two areas is a step of register_set or
\* register_set_range.
C21_InputAreasReadOnly ==
    /\ [][call'.api = "modbus" =>
             /\ store'.discrete_inputs = store.discrete_inputs
             /\ store'.input_registers = store.input_registers]_vars
    /\ [][(store'.discrete_inputs # store.discrete_inputs
             \/ store'.input_registers # store.input_registers)
          => call'.api \in {"register_set", "register_set_range"}]_vars

\* a register write request changed the store while both input areas held data
\* written through the management commands
C21_Witness ==
    /\ Accepted /\ call.request.fn \in RegisterWriteFns
    /\ result.ok /\ store # pre
    /\ store.input_registers[1] = 5
    /\ store.discrete_inputs = pre.discrete_inputs


\* between pre and store only the cells addr .. addr + n - 1 of the area changed,
\* and every area still has STORE_SIZE cells
OnlyChanged(area, addr, n) ==
    \A a \in DataArea :
        /\ Len(field(store, a)) = STORE_SIZE
        /\ \A i \in 1..STORE_SIZE :
              (a # area \/ i <= addr \/ i > addr + n)
                 => field(store, a)[i] = field(pre, a)[i]

\* C22: a successful write of n values at addr in one area (a write request that
\* is answered with a response, register_set, register_set_range) changed only
\* the cells addr .. addr + n - 1 of that area; all other cells of the four areas
\* and the length of every area are as before, and the count a range write
\* request reports is n.
C22_WriteFrame ==
    /\ (Accepted /\ call.request.fn \in CoilWriteFns \cup RegisterWriteFns /\ result.ok)
          => /\ OnlyChanged(IF call.request.fn \in CoilWriteFns
                            THEN "coils" ELSE "holding",
                            WriteAddr(call.request), WriteCount(call.request))
             /\ call.request.fn \in RangeWriteFns
                   => result.val[1].written = WriteCount(call.request)
    /\ (call.api = "register_set" /\ result.ok)
          => OnlyChanged(call.area, call.offset, 1)
    /\ (call.api = "register_set_range" /\ result.ok)
          => OnlyChanged(call.area, call.offset, ValuesLen(call.values))

\* one register was written at the last address while the first held data
C22_Witness ==
    /\ Accepted /\ call.request.fn = "WriteSingleRegister"
    /\ call.request.addr = STORE_SIZE - 1
    /\ result.ok /\ store # pre
    /\ pre.holding_registers[1] = 10
    /\ store.holding_registers[1] = 10

====
